---- MODULE Spec2Model ----
(***************************************************************************)
(* ChimeraPy control plane: the node's WorkerCommsService and the          *)
(* signal-channel Client it runs on.                                       *)
(*                                                                         *)
(* One node process is modelled: its Client (reader task _read_ws, the     *)
(* sender coroutine running async_connect / async_send, the ack ring       *)
(* uuid_records) and the handlers WorkerCommsService registers on it.      *)
(* The worker at the other end of the websocket is the environment: it     *)
(* sends frames, acknowledges (or not) and may reset the connection.       *)
(*                                                                         *)
(* A second specification, ManagerSpec, models the tiers above the node:   *)
(* the manager's HTTP API, the manager's WorkerHandler and the worker's    *)
(* NodeHandler, driving the nodes of a two-node graph through the node     *)
(* handlers above.                                                         *)
(***************************************************************************)
EXTENDS Integers, Sequences, FiniteSets, TLC

VARIABLES
    fsm,                    \* NodeState.fsm of the node
    busEvent,               \* event the running handler awaits on the event bus
    ws,                     \* Client._ws: "none", "open" or "closed"
    session,                \* Client._session: "none", "open" or "closed"
    inbox,                  \* frames on the websocket, worker -> node
    readerPc,               \* position of the _read_ws task
    cur,                    \* frame the reader is processing (msg)
    phaseAtRecv,            \* fsm when the reader took cur off the socket
    uuid_records,           \* Client.uuid_records, the ack ring
    nextUuid,               \* the next value uuid.uuid4() returns
    sendPc,                 \* position of the sender coroutine
    sendCall,               \* the API call the sender coroutine is in
    sendMsg,                \* frame the sender coroutine is sending
    result,                 \* outcome of the sender's last finished call
    ackedInWait,            \* the OK for the frame last waited on came during the wait
    okSent,                 \* uuids of the frames the node has sent an OK for
    srvSeen,                \* uuids of the ok=true frames the worker received, in order
    reported,               \* phase in the last NODE_STATUS the worker received
    methodReply,            \* answer the requester got to its last REQUEST_METHOD
    srvCount,               \* frames the worker has sent
    nCalls,                 \* connect and send calls made after setup
    nodeFsm,                \* per node of the graph: NodeState.fsm of its runtime
    nodeCtx,                \* per node: execution context hosting it, or "none"
    mirror,                 \* per node: phase in the last NODE_STATUS it sent up
    collecting,             \* manager.state.collecting
    running,                \* manager.state.running
    start_time,             \* manager.start_time: as constructed, or set by a start
    futures,                \* len(API.futures): async_collect runs scheduled
    saves,                  \* /nodes/save broadcasts issued
    ops,                    \* per slot: the manager or worker operation in progress
    last,                   \* the operation that returned last, with its answer
    nOps,                   \* operations started
    folderPc,               \* position of the send_folder / send_file coroutine
    folderCall,             \* "send_folder" or "send_file": the call in progress
    sender_id,              \* its sender_id argument
    dir,                    \* async_send_folder: what its dir argument is on disk
    miss_counter,           \* async_send_folder: failed archive attempts
    zip_timeout,            \* async_send_folder: comms.timeout.zip-time as read
    posted,                 \* the call in progress has POSTed to /file/post
    folderResult,           \* what the last finished call returned
    file_transfer_records,  \* the receiver's table: sender ids recorded
    nSends,                 \* send_folder and send_file calls made
    records,                \* Session.records: per name the latest sample
    process,                \* name of the process of the last Session.apply
    called,                 \* that apply called process.forward
    inputs,                 \* the samples it passed to forward, in order
    output,                 \* what it returned
    nSessionOps             \* Session.update and Session.apply calls made

clientVars == <<fsm, busEvent, ws, session, inbox, readerPc, cur, phaseAtRecv,
                uuid_records, nextUuid, sendPc, sendCall, sendMsg, result,
                ackedInWait, okSent, srvSeen, reported, methodReply, srvCount,
                nCalls>>

mgrVars == <<nodeFsm, nodeCtx, mirror, collecting, running, start_time,
             futures, saves, ops, last, nOps>>

folderVars == <<folderPc, folderCall, sender_id, dir, miss_counter,
                zip_timeout, posted, folderResult, file_transfer_records,
                nSends>>

mmVars == <<records, process, called, inputs, output, nSessionOps>>

vars == <<clientVars, mgrVars, folderVars, mmVars>>

nodeVars   == <<fsm, busEvent>>
readerVars == <<readerPc, cur, phaseAtRecv>>
senderVars == <<sendPc, sendCall, sendMsg, result, nextUuid, nCalls>>
serverVars == <<srvCount>>
wireVars   == <<okSent, srvSeen, reported, methodReply>>

----------------------------------------------------------------------------
(* Bounds of the model *)

MaxFrames   == 2    \* frames the worker sends
MaxCalls    == 1    \* connect and send calls the application makes after setup
MaxOps      == 4    \* operations started on the manager and the worker
MaxSlots    == 2    \* operations that can be in progress at once
MaxOks      == 101  \* further OK frames the worker sends, unasked for
MaxSends    == 2    \* send_folder and send_file calls
MaxZipTime  == 2    \* largest value configured for comms.timeout.zip-time
MaxTime     == 2    \* largest timestamp of a sample given to Session.update
MaxSessionOps == 6  \* Session.update and Session.apply calls

----------------------------------------------------------------------------
(* Lifecycle phases, spec order *)

Phases == <<"REGISTERED", "INITIALIZED", "CONNECTED", "READY", "PREVIEWING",
            "RECORDING", "STOPPED", "SAVED", "SHUTDOWN">>

Rank(p) == CHOOSE i \in 1..Len(Phases) : Phases[i] = p

\* The phase of the NodeState handed to the service by in_node_config: the
\* node was created and is about to report its publisher endpoint.
InitialPhases == {"INITIALIZED"}

----------------------------------------------------------------------------
(* Signals and the signal -> handler table *)

LifecycleSignals == {"BROADCAST_NODE_SERVER", "START_NODES", "RECORD_NODES",
                     "STOP_NODES", "REQUEST_COLLECT"}
RequestSignals   == {"REQUEST_GATHER", "REQUEST_STEP", "REQUEST_METHOD"}
UnknownSignal    == "0x7FFE"

\* What the worker may put on the socket besides OK.
ServerSignals == LifecycleSignals \cup RequestSignals
                    \cup {"SHUTDOWN", UnknownSignal}

\* ws_handlers passed by WorkerCommsService.setup.
NodeHandlers ==
    [s \in LifecycleSignals \cup RequestSignals \cup {"SHUTDOWN"} |->
        CASE s = "SHUTDOWN"              -> "shutdown"
          [] s = "BROADCAST_NODE_SERVER" -> "process_node_pub_table"
          [] s = "REQUEST_STEP"          -> "async_step"
          [] s = "REQUEST_COLLECT"       -> "provide_collect"
          [] s = "REQUEST_GATHER"        -> "provide_gather"
          [] s = "START_NODES"           -> "start_node"
          [] s = "RECORD_NODES"          -> "record_node"
          [] s = "STOP_NODES"            -> "stop_node"
          [] s = "REQUEST_METHOD"        -> "execute_registered_method"]

\* Default client handlers, added by Client.__init__ with dict.update.
ClientDefaultHandlers ==
    [s \in {"OK", "SHUTDOWN"} |->
        IF s = "OK" THEN "_ok" ELSE "async_shutdown"]

\* Client.ws_handlers after __init__: update() lets the defaults win.
ws_handlers == ClientDefaultHandlers @@ NodeHandlers

\* Event each WorkerCommsService handler sends on the event bus.
EventOf(h) ==
    CASE h = "process_node_pub_table"    -> "setup_connections"
      [] h = "start_node"                -> "start"
      [] h = "record_node"               -> "record"
      [] h = "stop_node"                 -> "stop"
      [] h = "provide_collect"           -> "collect"
      [] h = "execute_registered_method" -> "registered_method"
      [] h = "async_step"                -> "manual_step"
      [] h = "provide_gather"            -> "gather"

NodeHandlerNames == {NodeHandlers[s] : s \in LifecycleSignals \cup RequestSignals}

\* FsmAfter with provide_gather marking the node READY.
FsmAfterGatherReady(h, f) ==
    CASE h = "process_node_pub_table" -> "CONNECTED"
      [] h = "start_node"             -> "PREVIEWING"
      [] h = "record_node"            -> "RECORDING"
      [] h = "stop_node"              -> "STOPPED"
      [] h = "provide_collect"        -> "SAVED"
      [] h = "provide_gather"         -> "READY"
      [] OTHER                        -> f

\* FsmAfter with a duplicate command treated as a failure.
FsmAfterDuplicateError(h, f) ==
    LET post == CASE h = "process_node_pub_table" -> "CONNECTED"
                  [] h = "start_node"             -> "PREVIEWING"
                  [] h = "record_node"            -> "RECORDING"
                  [] h = "stop_node"              -> "STOPPED"
                  [] h = "provide_collect"        -> "SAVED"
                  [] OTHER                        -> f
    IN  IF h \in {"process_node_pub_table", "start_node", "record_node",
                  "stop_node", "provide_collect"} /\ post = f
        THEN "ERROR" ELSE post

\* FsmAfter with async_step moving the node on to PREVIEWING.
FsmAfterStepPreviews(h, f) ==
    CASE h = "process_node_pub_table" -> "CONNECTED"
      [] h = "start_node"             -> "PREVIEWING"
      [] h = "record_node"            -> "RECORDING"
      [] h = "stop_node"              -> "STOPPED"
      [] h = "provide_collect"        -> "SAVED"
      [] h = "async_step"             -> "PREVIEWING"
      [] OTHER                        -> f

\* state.fsm after the handler's await on the event bus has returned.
FsmAfter(h, f) ==
    CASE h = "process_node_pub_table" -> "CONNECTED"
      [] h = "start_node"             -> "PREVIEWING"
      [] h = "record_node"            -> "RECORDING"
      [] h = "stop_node"              -> "STOPPED"
      [] h = "provide_collect"        -> "SAVED"
      [] OTHER                        -> f

----------------------------------------------------------------------------
(* Frames *)

NoData  == "-"
NoUuid  == -1
NoFrame == [signal |-> "none", uuid |-> NoUuid, ok |-> FALSE, data |-> NoData]

\* The data of a REQUEST_METHOD frame is {"method_name": .., "params": ..};
\* it is modelled by the method name. Malformed stands for data without
\* these keys.
RegisteredMethods == {"a_registered_method"}
MethodNames       == RegisteredMethods \cup {"no_such_method"}
Malformed         == "malformed"

\* The data the worker may put in a frame of each signal.
FrameData(signal) ==
    IF signal = "REQUEST_METHOD" THEN MethodNames \cup {Malformed}
    ELSE {NoData}

\* create_payload(signal, data, msg_uuid, ok)
create_payload(signal, data, msg_uuid, ok) ==
    [signal |-> signal, uuid |-> msg_uuid, ok |-> ok, data |-> data]

\* The default of _send_msg's msg_uuid parameter: str(uuid.uuid4()) is
\* evaluated once, when the function is defined.
DefaultMsgUuid == 0

\* collections.deque(maxlen=100)
UuidRecordsMaxLen == 100

\* DequeAppend with a full ring dropping its newest entry for the new one.
DequeAppendEvictsNewest(q, x) ==
    IF Len(q) < UuidRecordsMaxLen THEN Append(q, x)
    ELSE Append(SubSeq(q, 1, Len(q) - 1), x)

\* deque.append: a full ring drops its oldest entry.
DequeAppend(q, x) ==
    IF Len(q) < UuidRecordsMaxLen THEN Append(q, x)
    ELSE Append(Tail(q), x)

InRing(u) == \E i \in 1..Len(uuid_records) : uuid_records[i] = u

----------------------------------------------------------------------------
(* The graph and the operations of the tiers above the node *)

\* The graph of the tests: Gen1 -> Con1, both placed on the one worker.
Nodes    == {"Gen1", "Con1"}

\* NodeConfig(context=...)
Contexts == {"multiprocessing", "threading"}

Slots == 1..MaxSlots

\* The routes of API, the operations of the manager's WorkerHandler that
\* broadcast one command, and those of the worker's NodeHandlerService.
ApiRoutes   == {"post_start", "post_stop", "post_collect"}
HandlerCmds == {"start_workers", "record_workers", "stop", "collect"}
WorkerCmds  == {"async_start_nodes", "async_stop_nodes"}

\* The signal a node receives for each of them.
SignalOf(op) ==
    CASE op \in {"post_start", "start_workers", "async_start_nodes"}
                                   -> "START_NODES"
      [] op \in {"post_stop", "stop", "async_stop_nodes"}
                                   -> "STOP_NODES"
      [] op \in {"post_collect", "collect"}
                                   -> "REQUEST_COLLECT"
      [] op = "record_workers"     -> "RECORD_NODES"
      [] op = "commit"             -> "BROADCAST_NODE_SERVER"

NoOp == [op |-> "none", pc |-> "idle", pending |-> {}, ok |-> TRUE,
         lost |-> {}]

NoAnswer == [op |-> "none", resp |-> "none", lost |-> FALSE]

----------------------------------------------------------------------------
(* Samples, data types and processes of mm.Session *)

\* The data streams and the processes of the analyzer test.
DataTypes == {"csv", "video"}

Processes ==
    { [name |-> "draw_video", inputs |-> <<"csv", "video">>],
      [name |-> "show_video", inputs |-> <<"draw_video">>],
      [name |-> "tick",       inputs |-> <<>>] }

RecordKeys == DataTypes \cup {p.name : p \in Processes}

\* DataSample(dtype, time, data); the data of a process's sample is shown
\* as the timestamps of the samples it was computed from, in order.
DataSample(dtype, time, data) == [dtype |-> dtype, time |-> time, data |-> data]

\* A key that is not in records, the value None, and a raised ValueError.
NoSample   == DataSample("absent", 0, <<>>)
None       == DataSample("None", 0, <<>>)
ValueError == DataSample("ValueError", 0, <<>>)

----------------------------------------------------------------------------
Init ==
    /\ fsm \in InitialPhases
    /\ busEvent = "none"
    /\ ws = "none"
    /\ session = "none"
    /\ inbox = <<>>
    /\ readerPc = "none"
    /\ cur = NoFrame
    /\ phaseAtRecv = "none"
    /\ uuid_records = <<>>
    /\ nextUuid = 1
    /\ ackedInWait = FALSE
    /\ sendPc = "idle"
    /\ sendCall = "none"
    /\ sendMsg = NoFrame
    /\ result = "none"
    /\ okSent = {}
    /\ srvSeen = <<>>
    /\ reported = "none"
    /\ methodReply = "none"
    /\ srvCount = 0
    /\ nCalls = 0
    /\ nodeFsm = [n \in Nodes |-> "REGISTERED"]
    /\ nodeCtx = [n \in Nodes |-> "none"]
    /\ mirror = [n \in Nodes |-> "REGISTERED"]
    /\ collecting = FALSE
    /\ running = FALSE
    /\ start_time = "init"
    /\ futures = 0
    /\ saves = 0
    /\ ops = [i \in Slots |-> NoOp]
    /\ last = NoAnswer
    /\ nOps = 0
    /\ folderPc = "idle"
    /\ folderCall = "none"
    /\ sender_id = "none"
    /\ dir = "none"
    /\ miss_counter = 0
    /\ zip_timeout = 0
    /\ posted = FALSE
    /\ folderResult = "none"
    /\ file_transfer_records = {}
    /\ nSends = 0
    /\ records = [k \in RecordKeys |-> NoSample]
    /\ process = "none"
    /\ called = FALSE
    /\ inputs = <<>>
    /\ output = None
    /\ nSessionOps = 0

----------------------------------------------------------------------------
(* The websocket, node -> worker *)

\* A frame written by ws.send_json reaches the worker, which mirrors the
\* node state a NODE_STATUS carries and notes the uuids it is asked to ack.
WsWrite(frame) ==
    /\ srvSeen' = IF frame.ok THEN Append(srvSeen, frame.uuid) ELSE srvSeen
    /\ reported' = IF frame.signal = "NODE_STATUS" THEN frame.data ELSE reported
    /\ okSent' = IF frame.signal = "OK" THEN okSent \cup {frame.data} ELSE okSent
    /\ UNCHANGED methodReply

----------------------------------------------------------------------------
(* Client._read_ws and the handlers it dispatches to *)

\* ReaderTake with the next frame taken while a handler is still running.
ReaderTakeConcurrent(msg) ==
    /\ readerPc \in {"recv", "awaiting", "handled"}
    /\ ws = "open"
    /\ inbox # <<>>
    /\ msg = Head(inbox)
    /\ inbox' = Tail(inbox)
    /\ cur' = msg
    /\ phaseAtRecv' = fsm

\* The reader, at its async for with no handler running, takes msg off the
\* socket and looks its handler up.
ReaderTake(msg) ==
    /\ readerPc = "recv"
    /\ ws = "open"
    /\ inbox # <<>>
    /\ msg = Head(inbox)
    /\ inbox' = Tail(inbox)
    /\ cur' = msg
    /\ phaseAtRecv' = fsm

\* self.ws_handlers[msg["signal"]] raises KeyError: the task ends.
ReaderRecvUnknown ==
    /\ \E msg \in {Head(inbox) : i \in 1..Len(inbox)} :
          /\ ReaderTake(msg)
          /\ msg.signal \notin DOMAIN ws_handlers
    /\ readerPc' = "dead"
    /\ UNCHANGED <<nodeVars, ws, session, uuid_records, senderVars, wireVars,
                   serverVars>>
    /\ UNCHANGED <<mgrVars, folderVars, mmVars, ackedInWait>>

\* Client._ok
\* Handle_ok by a reader that also takes OK frames while a handler it
\* called is still running.
Handle_ok_during_handler ==
    /\ readerPc \in {"recv", "awaiting"}
    /\ ws = "open"
    /\ inbox # <<>>
    /\ Head(inbox).signal \in DOMAIN ws_handlers
    /\ ws_handlers[Head(inbox).signal] = "_ok"
    /\ inbox' = Tail(inbox)
    /\ uuid_records' = DequeAppend(uuid_records, Head(inbox).data)
    /\ IF readerPc = "recv"
       THEN /\ cur' = Head(inbox)
            /\ phaseAtRecv' = fsm
            /\ readerPc' = "handled"
       ELSE UNCHANGED <<cur, phaseAtRecv, readerPc>>
    /\ UNCHANGED <<nodeVars, ws, session, senderVars, wireVars, serverVars>>
    /\ ackedInWait' = IF /\ sendPc \in {"wait_msg", "wait_send"}
                          /\ Head(inbox).data = sendMsg.uuid
                       THEN TRUE ELSE ackedInWait
    /\ UNCHANGED <<mgrVars, folderVars, mmVars>>

Handle_ok ==
    /\ \E msg \in {Head(inbox) : i \in 1..Len(inbox)} :
          /\ ReaderTake(msg)
          /\ msg.signal \in DOMAIN ws_handlers
          /\ ws_handlers[msg.signal] = "_ok"
          /\ uuid_records' = DequeAppend(uuid_records, msg.data)
    /\ readerPc' = "handled"
    /\ UNCHANGED <<nodeVars, ws, session, senderVars, wireVars, serverVars>>
    /\ ackedInWait' = IF /\ sendPc \in {"wait_msg", "wait_send"}
                          /\ Head(inbox).data = sendMsg.uuid
                       THEN TRUE ELSE ackedInWait
    /\ UNCHANGED <<mgrVars, folderVars, mmVars>>

\* Handle_async_shutdown closing the client session but not the websocket.
Handle_async_shutdown_session_only ==
    /\ \E msg \in {Head(inbox) : i \in 1..Len(inbox)} :
          /\ ReaderTake(msg)
          /\ msg.signal \in DOMAIN ws_handlers
          /\ ws_handlers[msg.signal] = "async_shutdown"
    /\ session' = "closed"
    /\ readerPc' = "handled"
    /\ UNCHANGED <<nodeVars, ws, uuid_records, senderVars, wireVars,
                   serverVars>>
    /\ UNCHANGED <<mgrVars, folderVars, mmVars, ackedInWait>>

\* Client.async_shutdown, as the SHUTDOWN handler: the websocket is closed,
\* then the client session.
Handle_async_shutdown ==
    /\ \E msg \in {Head(inbox) : i \in 1..Len(inbox)} :
          /\ ReaderTake(msg)
          /\ msg.signal \in DOMAIN ws_handlers
          /\ ws_handlers[msg.signal] = "async_shutdown"
    /\ ws' = "closed"
    /\ session' = "closed"
    /\ readerPc' = "handled"
    /\ UNCHANGED <<nodeVars, uuid_records, senderVars, wireVars, serverVars>>
    /\ UNCHANGED <<mgrVars, folderVars, mmVars, ackedInWait>>

\* HandlerRaises with a method name that is not registered raising as well.
HandlerRaisesOnUnknown(h, data) ==
    /\ h = "execute_registered_method"
    /\ data \notin RegisteredMethods

\* Handler h raises before its await when given data: only
\* execute_registered_method reads keys of msg["data"] (KeyError, TypeError
\* when they are missing); it does not look the method name up.
HandlerRaises(h, data) ==
    /\ h = "execute_registered_method"
    /\ data = Malformed

\* The answer the requester gets once the registered_method event has been
\* dispatched: the method's result, UnknownMethod when no method of that
\* name is registered.
RegisteredMethodResult(method_name) ==
    IF method_name \in RegisteredMethods THEN "result" ELSE "UnknownMethod"

\* HandlerCall with state.fsm assigned before the await on the event bus.
HandlerCallFsmFirst ==
    /\ \E msg \in {Head(inbox) : i \in 1..Len(inbox)} :
          /\ ReaderTake(msg)
          /\ msg.signal \in DOMAIN ws_handlers
          /\ ws_handlers[msg.signal] \in NodeHandlerNames
          /\ ~HandlerRaises(ws_handlers[msg.signal], msg.data)
          /\ busEvent' = EventOf(ws_handlers[msg.signal])
          /\ fsm' = FsmAfter(ws_handlers[msg.signal], fsm)
    /\ readerPc' = "awaiting"
    /\ UNCHANGED <<ws, session, uuid_records, senderVars, wireVars,
                   serverVars>>
    /\ UNCHANGED <<mgrVars, folderVars, mmVars, ackedInWait>>

\* A WorkerCommsService handler up to its await: eventbus.asend(Event(..))
HandlerCall ==
    /\ \E msg \in {Head(inbox) : i \in 1..Len(inbox)} :
          /\ ReaderTake(msg)
          /\ msg.signal \in DOMAIN ws_handlers
          /\ ws_handlers[msg.signal] \in NodeHandlerNames
          /\ ~HandlerRaises(ws_handlers[msg.signal], msg.data)
          /\ busEvent' = EventOf(ws_handlers[msg.signal])
    /\ readerPc' = "awaiting"
    /\ UNCHANGED <<fsm, ws, session, uuid_records, senderVars, wireVars,
                   serverVars>>
    /\ UNCHANGED <<mgrVars, folderVars, mmVars, ackedInWait>>

\* A handler raises before its await: the exception leaves handler(msg) and
\* _read_ws, which has no try around the call, so the reader task ends.
HandlerCallRaises ==
    /\ \E msg \in {Head(inbox) : i \in 1..Len(inbox)} :
          /\ ReaderTake(msg)
          /\ msg.signal \in DOMAIN ws_handlers
          /\ ws_handlers[msg.signal] \in NodeHandlerNames
          /\ HandlerRaises(ws_handlers[msg.signal], msg.data)
    /\ readerPc' = "dead"
    /\ UNCHANGED <<nodeVars, ws, session, uuid_records, senderVars, wireVars,
                   serverVars>>
    /\ UNCHANGED <<mgrVars, folderVars, mmVars, ackedInWait>>

\* The await returned, the event is dispatched; the rest of the handler:
\* self.state.fsm = ...
HandlerResume ==
    /\ readerPc = "awaiting"
    /\ sendCall # "handler_send"
    /\ fsm' = FsmAfter(ws_handlers[cur.signal], fsm)
    /\ methodReply' = IF ws_handlers[cur.signal] = "execute_registered_method"
                      THEN RegisteredMethodResult(cur.data)
                      ELSE methodReply
    /\ busEvent' = "none"
    /\ readerPc' = "handled"
    /\ UNCHANGED <<ws, session, inbox, cur, phaseAtRecv, uuid_records,
                   senderVars, okSent, srvSeen, reported, serverVars>>
    /\ UNCHANGED <<mgrVars, folderVars, mmVars, ackedInWait>>

\* ReaderNoOk with the OK sent although msg["ok"] is false.
ReaderNoOkStillAcks ==
    /\ readerPc = "handled"
    /\ ~cur.ok
    /\ ws = "open"
    /\ WsWrite(create_payload("OK", cur.uuid, NoUuid, FALSE))
    /\ readerPc' = "recv"
    /\ cur' = NoFrame
    /\ phaseAtRecv' = "none"
    /\ UNCHANGED <<nodeVars, ws, session, inbox, uuid_records, senderVars,
                   serverVars>>
    /\ UNCHANGED <<mgrVars, folderVars, mmVars, ackedInWait>>

\* if msg["ok"]: false, back to the async for
ReaderNoOk ==
    /\ readerPc = "handled"
    /\ ~cur.ok
    /\ readerPc' = "recv"
    /\ cur' = NoFrame
    /\ phaseAtRecv' = "none"
    /\ UNCHANGED <<nodeVars, ws, session, inbox, uuid_records, senderVars,
                   wireVars, serverVars>>
    /\ UNCHANGED <<mgrVars, folderVars, mmVars, ackedInWait>>

\* if msg["ok"]: await self._ws.send_json(create_payload(OK, {uuid}))
ReaderSendOk ==
    /\ readerPc = "handled"
    /\ cur.ok
    /\ ws = "open"
    /\ WsWrite(create_payload("OK", cur.uuid, NoUuid, FALSE))
    /\ readerPc' = "recv"
    /\ cur' = NoFrame
    /\ phaseAtRecv' = "none"
    /\ UNCHANGED <<nodeVars, ws, session, inbox, uuid_records, senderVars,
                   serverVars>>
    /\ UNCHANGED <<mgrVars, folderVars, mmVars, ackedInWait>>

\* send_json raises ConnectionResetError (the peer went away, or the socket
\* is closing): await self._ws.close(); return None
ReaderSendOkReset ==
    /\ readerPc = "handled"
    /\ cur.ok
    /\ ws' = "closed"
    /\ UNCHANGED session
    /\ readerPc' = "done"
    /\ inbox' = <<>>
    /\ UNCHANGED <<nodeVars, cur, phaseAtRecv, uuid_records, senderVars,
                   wireVars, serverVars>>
    /\ UNCHANGED <<mgrVars, folderVars, mmVars, ackedInWait>>

\* The socket is closed: the async for ends and the task returns.
ReaderEnd ==
    /\ readerPc = "recv"
    /\ ws = "closed"
    /\ readerPc' = "done"
    /\ inbox' = <<>>
    /\ UNCHANGED <<nodeVars, ws, session, cur, phaseAtRecv, uuid_records,
                   senderVars, wireVars, serverVars>>
    /\ UNCHANGED <<mgrVars, folderVars, mmVars, ackedInWait>>

----------------------------------------------------------------------------
(* The sender coroutine: async_connect, _register, _send_msg, async_send *)

\* async_waiting_for(condition, timeout): polls the condition; returns when
\* it is true, raises TimeoutError once the timeout has elapsed. The set of
\* outcomes a poll can have.
async_waiting_for(condition, timeout) ==
    IF condition THEN {"done"}
    ELSE IF timeout THEN {"waiting", "timeout"} ELSE {"waiting"}

\* AsyncConnect without the clear of the ack ring.
AsyncConnectKeepsRing(call) ==
    /\ sendPc = "idle"
    /\ readerPc \in {"none", "done", "dead"}
    /\ uuid_records' = uuid_records
    /\ session' = "open"
    /\ ws' = "open"
    /\ inbox' = <<>>
    /\ readerPc' = "recv"
    /\ cur' = NoFrame
    /\ phaseAtRecv' = "none"
    /\ sendCall' = call
    /\ sendMsg' = create_payload("CLIENT_REGISTER", "client_id",
                                 DefaultMsgUuid, TRUE)
    /\ sendPc' = "write"
    /\ result' = "none"
    /\ UNCHANGED <<nodeVars, nextUuid, wireVars, serverVars>>
    /\ UNCHANGED <<mgrVars, folderVars, mmVars, ackedInWait>>

\* Client.async_connect up to the write of _register's frame, which is
\* _send_msg(CLIENT_REGISTER, ok=True) with the default msg_uuid. A connect
\* is modelled for a client that has no running reader task (none yet, or
\* the previous one has ended).
AsyncConnect(call) ==
    /\ sendPc = "idle"
    /\ readerPc \in {"none", "done", "dead"}
    /\ uuid_records' = <<>>
    /\ session' = "open"
    /\ ws' = "open"
    /\ inbox' = <<>>
    /\ readerPc' = "recv"
    /\ cur' = NoFrame
    /\ phaseAtRecv' = "none"
    /\ sendCall' = call
    /\ sendMsg' = create_payload("CLIENT_REGISTER", "client_id", DefaultMsgUuid, TRUE)
    /\ sendPc' = "write"
    /\ result' = "none"
    /\ UNCHANGED <<nodeVars, nextUuid, wireVars, serverVars>>
    /\ UNCHANGED <<mgrVars, folderVars, mmVars, ackedInWait>>

\* WorkerCommsService.setup: create the client, await async_connect()
Setup ==
    /\ ws = "none"
    /\ AsyncConnect("setup")
    /\ UNCHANGED nCalls

\* Client.connect on a client whose connection was lost
Reconnect ==
    /\ ws # "none"
    /\ nCalls < MaxCalls
    /\ AsyncConnect("connect")
    /\ nCalls' = nCalls + 1

\* Client.async_send up to the write in _send_msg: a new uuid4 per call.
AsyncSend(signal, data, ok) ==
    /\ sendPc = "idle"
    /\ ws # "none"
    /\ nCalls < MaxCalls
    /\ sendCall' \in {"send", "handler_send"}
    /\ sendMsg' = create_payload(signal, data, nextUuid, ok)
    /\ nextUuid' = nextUuid + 1
    /\ nCalls' = nCalls + 1
    /\ sendPc' = "write"
    /\ result' = "none"
    /\ UNCHANGED <<nodeVars, ws, session, inbox, readerVars, uuid_records,
                   wireVars, serverVars>>
    /\ UNCHANGED <<mgrVars, folderVars, mmVars, ackedInWait>>

\* client.async_send(signal, data, ok) called by the node's services
ClientSend ==
    /\ \E ok \in BOOLEAN : AsyncSend("NODE_REPORT_GATHER", NoData, ok)
    /\ sendCall' = "send"

\* The listener of the gather event answers with the client it was handed
\* (GatherEvent(self.client)): client.async_send(NODE_REPORT_GATHER, ...),
\* awaited inside provide_gather's await on the event bus, which returns
\* only after the send has.
HandlerSend ==
    /\ readerPc = "awaiting"
    /\ busEvent = "gather"
    /\ \E ok \in BOOLEAN : AsyncSend("NODE_REPORT_GATHER", NoData, ok)
    /\ sendCall' = "handler_send"

\* _send_msg has returned to its caller.
SendMsgReturn ==
    CASE sendCall = "setup" ->
            \* setup goes on: async_send(NODE_STATUS, state.to_dict())
            /\ sendCall' = "status"
            /\ sendMsg' = create_payload("NODE_STATUS", fsm, nextUuid, FALSE)
            /\ nextUuid' = nextUuid + 1
            /\ sendPc' = "write"
            /\ UNCHANGED result
      [] sendCall = "connect" ->
            /\ sendCall' = "none"
            /\ sendMsg' = NoFrame
            /\ sendPc' = "idle"
            /\ result' = "connected"
            /\ UNCHANGED nextUuid
      [] OTHER ->
            \* async_send: if ok, wait again; return True
            IF sendMsg.ok
            THEN /\ sendPc' = "wait_send"
                 /\ UNCHANGED <<sendCall, sendMsg, result, nextUuid>>
            ELSE /\ sendCall' = "none"
                 /\ sendMsg' = NoFrame
                 /\ sendPc' = "idle"
                 /\ result' = "True"
                 /\ UNCHANGED nextUuid

\* An exception leaves the sender's call.
SendRaise(what) ==
    /\ sendCall' = "none"
    /\ sendMsg' = NoFrame
    /\ sendPc' = "idle"
    /\ result' = what
    /\ UNCHANGED nextUuid

\* _send_msg: if self._ws.closed: return None
SendMsgClosed ==
    /\ sendPc = "write"
    /\ ws = "closed"
    /\ SendMsgReturn
    /\ UNCHANGED <<nodeVars, ws, session, inbox, readerVars, uuid_records,
                   nCalls, wireVars, serverVars>>
    /\ ackedInWait' = IF sendPc' = "wait_send" THEN FALSE ELSE ackedInWait
    /\ UNCHANGED <<mgrVars, folderVars, mmVars>>

\* _send_msg: await self._ws.send_json(payload) went through
SendMsgWrite ==
    /\ sendPc = "write"
    /\ ws = "open"
    /\ WsWrite(sendMsg)
    /\ IF sendMsg.ok
       THEN /\ sendPc' = "wait_msg"
            /\ UNCHANGED <<sendCall, sendMsg, result, nextUuid>>
       ELSE SendMsgReturn
    /\ UNCHANGED <<nodeVars, ws, session, inbox, readerVars, uuid_records,
                   nCalls, serverVars>>
    /\ ackedInWait' = IF sendMsg.ok THEN FALSE ELSE ackedInWait
    /\ UNCHANGED <<mgrVars, folderVars, mmVars>>

\* _send_msg: send_json raised ConnectionResetError: close, return None
SendMsgReset ==
    /\ sendPc = "write"
    /\ ws = "open"
    /\ ws' = "closed"
    /\ UNCHANGED session
    /\ SendMsgReturn
    /\ UNCHANGED <<nodeVars, inbox, readerVars, uuid_records, nCalls,
                   wireVars, serverVars>>
    /\ ackedInWait' = IF sendPc' = "wait_send" THEN FALSE ELSE ackedInWait
    /\ UNCHANGED <<mgrVars, folderVars, mmVars>>

\* _send_msg: if ok: await async_waiting_for(uuid in uuid_records, timeout)
SendMsgWait ==
    /\ sendPc = "wait_msg"
    /\ \E outcome \in async_waiting_for(InRing(sendMsg.uuid), TRUE) :
          CASE outcome = "done"    -> SendMsgReturn
            [] outcome = "timeout" -> SendRaise("Timeout")
            [] OTHER               -> FALSE
    /\ UNCHANGED <<nodeVars, ws, session, inbox, readerVars, uuid_records,
                   nCalls, wireVars, serverVars>>
    /\ ackedInWait' = IF sendPc' = "wait_send" THEN FALSE ELSE ackedInWait
    /\ UNCHANGED <<mgrVars, folderVars, mmVars>>

\* AsyncSendWait with the wait given no timeout.
AsyncSendWaitNoTimeout ==
    /\ sendPc = "wait_send"
    /\ \E outcome \in async_waiting_for(InRing(sendMsg.uuid), FALSE) :
          CASE outcome = "done"    -> SendRaise("True")
            [] outcome = "timeout" -> SendRaise("Timeout")
            [] OTHER               -> FALSE
    /\ UNCHANGED <<nodeVars, ws, session, inbox, readerVars, uuid_records,
                   nCalls, wireVars, serverVars>>
    /\ UNCHANGED <<mgrVars, folderVars, mmVars, ackedInWait>>

\* async_send: if ok: await async_waiting_for(...); return True
AsyncSendWait ==
    /\ sendPc = "wait_send"
    /\ \E outcome \in async_waiting_for(InRing(sendMsg.uuid), TRUE) :
          CASE outcome = "done"    -> SendRaise("True")
            [] outcome = "timeout" -> SendRaise("Timeout")
            [] OTHER               -> FALSE
    /\ UNCHANGED <<nodeVars, ws, session, inbox, readerVars, uuid_records,
                   nCalls, wireVars, serverVars>>
    /\ UNCHANGED ackedInWait
    /\ UNCHANGED <<mgrVars, folderVars, mmVars>>

----------------------------------------------------------------------------
(* The worker's end of the websocket *)

\* The worker sends a signal frame, with its own uuid and ok flag, once the
\* node has taken the previous frame off the socket.
ServerSend ==
    /\ ws = "open"
    /\ inbox = <<>>
    /\ srvCount < MaxFrames
    /\ \E signal \in ServerSignals, ok \in BOOLEAN :
          \E data \in FrameData(signal) :
             inbox' = Append(inbox,
                             create_payload(signal, data, srvCount + 1, ok))
    /\ srvCount' = srvCount + 1
    /\ UNCHANGED <<nodeVars, ws, session, readerVars, uuid_records,
                   senderVars, wireVars>>
    /\ UNCHANGED <<mgrVars, folderVars, mmVars, ackedInWait>>

\* The worker acknowledges a frame it received with ok=true.
ServerAck ==
    /\ ws = "open"
    /\ inbox = <<>>
    /\ srvCount < MaxFrames
    /\ \E i \in 1..Len(srvSeen) :
          inbox' = Append(inbox, create_payload("OK", srvSeen[i], NoUuid, FALSE))
    /\ srvCount' = srvCount + 1
    /\ UNCHANGED <<nodeVars, ws, session, readerVars, uuid_records,
                   senderVars, wireVars>>
    /\ UNCHANGED <<mgrVars, folderVars, mmVars, ackedInWait>>

\* Once its other frames are sent, the worker sends OK frames nobody waits
\* for (each names the number of the frame as its uuid).
ServerOk ==
    /\ ws = "open"
    /\ inbox = <<>>
    /\ srvCount >= MaxFrames
    /\ srvCount < MaxFrames + MaxOks
    /\ inbox' = Append(inbox, create_payload("OK", srvCount + 1, NoUuid, FALSE))
    /\ srvCount' = srvCount + 1
    /\ UNCHANGED <<nodeVars, ws, session, readerVars, uuid_records,
                   senderVars, wireVars>>
    /\ UNCHANGED <<mgrVars, folderVars, mmVars, ackedInWait>>

----------------------------------------------------------------------------
Next ==
    \/ Setup
    \/ Reconnect
    \/ ClientSend
    \/ HandlerSend
    \/ SendMsgClosed
    \/ SendMsgWrite
    \/ SendMsgReset
    \/ SendMsgWait
    \/ AsyncSendWait
    \/ ReaderRecvUnknown
    \/ Handle_ok
    \/ Handle_async_shutdown
    \/ HandlerCall
    \/ HandlerCallRaises
    \/ HandlerResume
    \/ ReaderNoOk
    \/ ReaderSendOk
    \/ ReaderSendOkReset
    \/ ReaderEnd
    \/ ServerSend
    \/ ServerAck

Spec == Init /\ [][Next]_vars

\* The event loop runs every coroutine that can make a step; a wait ends
\* at the latest on its timeout.
FairSpec ==
    /\ Spec
    /\ WF_vars(SendMsgClosed)
    /\ WF_vars(SendMsgWrite \/ SendMsgReset)
    /\ WF_vars(SendMsgWait)
    /\ WF_vars(AsyncSendWait)

\* The client under a worker that sends nothing but OK frames: the
\* connect, the reader's OK handler and the sender's waits, with the ack
\* ring filled beyond its capacity.
RingNext ==
    \/ Setup
    \/ Reconnect
    \/ SendMsgClosed
    \/ SendMsgWrite
    \/ SendMsgReset
    \/ SendMsgWait
    \/ Handle_ok
    \/ ReaderNoOk
    \/ ReaderEnd
    \/ ServerAck
    \/ ServerOk

RingSpec == Init /\ [][RingNext]_vars

----------------------------------------------------------------------------
(* The lifecycle table of the specification (section 4.1) *)

Precondition(signal) ==
    CASE signal = "BROADCAST_NODE_SERVER" -> {"INITIALIZED"}
      [] signal = "START_NODES"           -> {"CONNECTED", "STOPPED"}
      [] signal = "RECORD_NODES"          -> {"PREVIEWING"}
      [] signal = "STOP_NODES"            -> {"PREVIEWING", "RECORDING"}
      [] signal = "REQUEST_COLLECT"       -> {"STOPPED"}

PostState(signal) ==
    CASE signal = "BROADCAST_NODE_SERVER" -> "CONNECTED"
      [] signal = "START_NODES"           -> "PREVIEWING"
      [] signal = "RECORD_NODES"          -> "RECORDING"
      [] signal = "STOP_NODES"            -> "STOPPED"
      [] signal = "REQUEST_COLLECT"       -> "SAVED"

CommandEvent(signal) ==
    CASE signal = "BROADCAST_NODE_SERVER" -> "setup_connections"
      [] signal = "START_NODES"           -> "start"
      [] signal = "RECORD_NODES"          -> "record"
      [] signal = "STOP_NODES"            -> "stop"
      [] signal = "REQUEST_COLLECT"       -> "collect"

\* The handler of the frame cur has returned.
HandlerReturned == readerPc = "handled"

----------------------------------------------------------------------------
(* The node, as the worker sees it *)

\* The nodes the worker hosts.
Hosted == {n \in Nodes : nodeCtx[n] # "none"}

\* WorkerCommsService.setup, after the connect: the phase in the state the
\* node publishes with async_send(NODE_STATUS, state.to_dict()).
NodeSetupReportStale(f) == "REGISTERED"

NodeSetupReport(f) == f

\* NodeAcks with the handler raising InvalidPrecondition when the node's
\* phase f is not a legal precondition of the command.
NodeAcksLegalOnly(signal, f) ==
    /\ signal \in DOMAIN ws_handlers
    /\ ws_handlers[signal] # "async_shutdown"
    /\ signal \in LifecycleSignals => f \in Precondition(signal)

\* _read_ws for a frame with ok=true taken by a node in phase f: the handler
\* is looked up and awaited, then the OK is written, unless the handler has
\* closed the websocket. No handler looks at f.
NodeAcks(signal, f) ==
    /\ signal \in DOMAIN ws_handlers
    /\ ws_handlers[signal] # "async_shutdown"

----------------------------------------------------------------------------
(* Operations: common parts *)

\* No operation is in progress.
Quiet == \A j \in Slots : ops[j].pc = "idle"

\* Only HTTP requests to the API are in progress.
ApiOnly == \A j \in Slots : ops[j].pc = "idle" \/ ops[j].op \in ApiRoutes

\* A new operation takes the first free slot.
CanStart(i) ==
    /\ nOps < MaxOps
    /\ ops[i].pc = "idle"
    /\ \A j \in Slots : j < i => ops[j].pc # "idle"

\* manager.async_broadcast_request / the worker's fan-out: the command goes
\* to every hosted node and succeeds iff every one acknowledges in time.
Broadcast(op) ==
    [op |-> op, pc |-> "bcast", pending |-> Hosted, ok |-> TRUE,
     lost |-> {}]

BroadcastDone(i) == ops[i].pc = "bcast" /\ ops[i].pending = {}

\* The manager's view of the graph: the earliest phase among its nodes.
Aggregate ==
    LET r == CHOOSE x \in {Rank(mirror[n]) : n \in Nodes} :
                 \A n \in Nodes : x <= Rank(mirror[n])
    IN  Phases[r]

\* Every node destroyed, placement and NodePubTable cleared.
ResetEffect ==
    /\ nodeFsm' = [n \in Nodes |-> "REGISTERED"]
    /\ nodeCtx' = [n \in Nodes |-> "none"]
    /\ mirror' = [n \in Nodes |-> "REGISTERED"]

\* One node of a broadcast receives its frame (ok=true) and handles it.
Deliver(i, n) ==
    /\ ops[i].pc = "bcast"
    /\ n \in ops[i].pending
    /\ LET signal == SignalOf(ops[i].op) IN
          /\ nodeFsm' = [nodeFsm EXCEPT
                            ![n] = FsmAfter(ws_handlers[signal], @)]
          /\ ops' = [ops EXCEPT
                        ![i].pending = @ \ {n},
                        ![i].ok = @ /\ NodeAcks(signal, nodeFsm[n])]
    /\ UNCHANGED <<nodeCtx, mirror, collecting, running, futures, saves,
                   last, nOps>>
    /\ UNCHANGED <<clientVars, folderVars, mmVars, start_time>>

\* The frame or its OK is lost: the wait for that node's OK times out.
DeliverLost(i, n) ==
    /\ ops[i].pc = "bcast"
    /\ n \in ops[i].pending
    /\ ops' = [ops EXCEPT ![i].pending = @ \ {n},
                          ![i].ok = FALSE,
                          ![i].lost = @ \cup {n}]
    /\ UNCHANGED <<nodeFsm, nodeCtx, mirror, collecting, running, futures,
                   saves, last, nOps>>
    /\ UNCHANGED <<clientVars, folderVars, mmVars, start_time>>

----------------------------------------------------------------------------
(* The manager's HTTP API *)

\* API.post_start up to its await: the start time is marked, the broadcast
\* of /nodes/start is requested.
post_start(i) ==
    /\ CanStart(i)
    /\ ApiOnly
    /\ start_time' = "set"
    /\ ops' = [ops EXCEPT ![i] = Broadcast("post_start")]
    /\ nOps' = nOps + 1
    /\ UNCHANGED <<nodeFsm, nodeCtx, mirror, collecting, running, futures,
                   saves, last>>
    /\ UNCHANGED <<clientVars, folderVars, mmVars>>

\* post_start_resume with running set whatever the broadcast returned.
post_start_resume_always(i) ==
    /\ ops[i].op = "post_start"
    /\ BroadcastDone(i)
    /\ running' = TRUE
    /\ last' = [op |-> "post_start",
                resp |-> IF ops[i].ok THEN "200" ELSE "error",
                lost |-> ops[i].lost # {}]
    /\ ops' = [ops EXCEPT ![i] = NoOp]
    /\ UNCHANGED <<nodeFsm, nodeCtx, mirror, collecting, futures, saves,
                   nOps>>
    /\ UNCHANGED <<clientVars, folderVars, mmVars, start_time>>

\* API.post_start after the await: if success: running = True; HTTPOk
post_start_resume(i) ==
    /\ ops[i].op = "post_start"
    /\ BroadcastDone(i)
    /\ IF ops[i].ok
       THEN /\ running' = TRUE
            /\ last' = [op |-> "post_start", resp |-> "200",
                        lost |-> ops[i].lost # {}]
       ELSE /\ running' = running
            /\ last' = [op |-> "post_start", resp |-> "error",
                        lost |-> ops[i].lost # {}]
    /\ ops' = [ops EXCEPT ![i] = NoOp]
    /\ UNCHANGED <<nodeFsm, nodeCtx, mirror, collecting, futures, saves,
                   nOps>>
    /\ UNCHANGED <<clientVars, folderVars, mmVars, start_time>>

\* API.post_stop up to its await: stop_time and duration are computed from
\* start_time, then the broadcast of /nodes/stop is requested. With the
\* start_time the manager was constructed with, the subtraction may raise
\* (the server then answers 500) or not: the manager's constructor decides.
post_stop(i) ==
    /\ CanStart(i)
    /\ ApiOnly
    /\ \E raises \in IF start_time = "init" THEN BOOLEAN ELSE {FALSE} :
          IF raises
          THEN /\ last' = [op |-> "post_stop", resp |-> "500",
                           lost |-> FALSE]
               /\ UNCHANGED ops
          ELSE /\ ops' = [ops EXCEPT ![i] = Broadcast("post_stop")]
               /\ UNCHANGED last
    /\ nOps' = nOps + 1
    /\ UNCHANGED <<nodeFsm, nodeCtx, mirror, collecting, running, futures,
                   saves>>
    /\ UNCHANGED <<clientVars, folderVars, mmVars, start_time>>

\* API.post_stop after the await: if success: running = False; HTTPOk
post_stop_resume(i) ==
    /\ ops[i].op = "post_stop"
    /\ BroadcastDone(i)
    /\ IF ops[i].ok
       THEN /\ running' = FALSE
            /\ last' = [op |-> "post_stop", resp |-> "200",
                        lost |-> ops[i].lost # {}]
       ELSE /\ running' = running
            /\ last' = [op |-> "post_stop", resp |-> "error",
                        lost |-> ops[i].lost # {}]
    /\ ops' = [ops EXCEPT ![i] = NoOp]
    /\ UNCHANGED <<nodeFsm, nodeCtx, mirror, collecting, futures, saves,
                   nOps>>
    /\ UNCHANGED <<clientVars, folderVars, mmVars, start_time>>

\* post_collect without the test of the collecting flag.
post_collect_unguarded(i) ==
    /\ CanStart(i)
    /\ ApiOnly
    /\ collecting' = TRUE
    /\ ops' = [ops EXCEPT ![i] = Broadcast("post_collect")]
    /\ saves' = saves + 1
    /\ nOps' = nOps + 1
    /\ UNCHANGED <<nodeFsm, nodeCtx, mirror, running, futures, last>>
    /\ UNCHANGED <<clientVars, folderVars, mmVars, start_time>>

\* API.post_collect up to its await: if collecting: HTTPOk, else set the
\* flag and broadcast /nodes/save.
post_collect(i) ==
    /\ CanStart(i)
    /\ ApiOnly
    /\ IF collecting
       THEN /\ last' = [op |-> "post_collect", resp |-> "200",
                        lost |-> FALSE]
            /\ UNCHANGED <<collecting, ops, saves>>
       ELSE /\ collecting' = TRUE
            /\ ops' = [ops EXCEPT ![i] = Broadcast("post_collect")]
            /\ saves' = saves + 1
            /\ UNCHANGED last
    /\ nOps' = nOps + 1
    /\ UNCHANGED <<nodeFsm, nodeCtx, mirror, running, futures>>
    /\ UNCHANGED <<clientVars, folderVars, mmVars, start_time>>

\* post_collect_resume taking the flag back when the broadcast failed.
post_collect_resume_clears(i) ==
    /\ ops[i].op = "post_collect"
    /\ BroadcastDone(i)
    /\ IF ops[i].ok
       THEN /\ futures' = futures + 1
            /\ collecting' = collecting
            /\ last' = [op |-> "post_collect", resp |-> "200",
                        lost |-> ops[i].lost # {}]
       ELSE /\ futures' = futures
            /\ collecting' = FALSE
            /\ last' = [op |-> "post_collect", resp |-> "error",
                        lost |-> ops[i].lost # {}]
    /\ ops' = [ops EXCEPT ![i] = NoOp]
    /\ UNCHANGED <<nodeFsm, nodeCtx, mirror, running, saves, nOps>>
    /\ UNCHANGED <<clientVars, folderVars, mmVars, start_time>>

\* API.post_collect after the await: if success, schedule async_collect and
\* keep its future.
post_collect_resume(i) ==
    /\ ops[i].op = "post_collect"
    /\ BroadcastDone(i)
    /\ IF ops[i].ok
       THEN /\ futures' = futures + 1
            /\ last' = [op |-> "post_collect", resp |-> "200",
                        lost |-> ops[i].lost # {}]
       ELSE /\ futures' = futures
            /\ last' = [op |-> "post_collect", resp |-> "error",
                        lost |-> ops[i].lost # {}]
    /\ ops' = [ops EXCEPT ![i] = NoOp]
    /\ UNCHANGED <<nodeFsm, nodeCtx, mirror, collecting, running, saves,
                   nOps>>
    /\ UNCHANGED <<clientVars, folderVars, mmVars, start_time>>

----------------------------------------------------------------------------
(* The manager's WorkerHandler (specification, section 4.3) *)

\* WorkerHandlerCommand without the gate on the aggregate state.
WorkerHandlerCommandUngated(i, cmd) ==
    /\ CanStart(i)
    /\ Quiet
    /\ ops' = [ops EXCEPT ![i] = Broadcast(cmd)]
    /\ UNCHANGED last
    /\ nOps' = nOps + 1
    /\ UNCHANGED <<nodeFsm, nodeCtx, mirror, collecting, running, futures,
                   saves>>
    /\ UNCHANGED <<clientVars, folderVars, mmVars, start_time>>

\* start_workers, record_workers, stop, collect: a broadcast of the matching
\* command, gated by the command's precondition on the aggregate state.
WorkerHandlerCommand(i, cmd) ==
    /\ CanStart(i)
    /\ Quiet
    /\ IF Aggregate \in Precondition(SignalOf(cmd))
       THEN /\ ops' = [ops EXCEPT ![i] = Broadcast(cmd)]
            /\ UNCHANGED last
       ELSE /\ last' = [op |-> cmd, resp |-> "InvalidPrecondition",
                        lost |-> FALSE]
            /\ UNCHANGED ops
    /\ nOps' = nOps + 1
    /\ UNCHANGED <<nodeFsm, nodeCtx, mirror, collecting, running, futures,
                   saves>>
    /\ UNCHANGED <<clientVars, folderVars, mmVars, start_time>>

\* commit(graph, mapping): the graph is stored, node creation begins.
commit(i) ==
    /\ CanStart(i)
    /\ Quiet
    /\ Hosted = {}
    /\ ops' = [ops EXCEPT ![i] = [NoOp EXCEPT !.op = "commit",
                                              !.pc = "creating"]]
    /\ nOps' = nOps + 1
    /\ UNCHANGED <<nodeFsm, nodeCtx, mirror, collecting, running, futures,
                   saves, last>>
    /\ UNCHANGED <<clientVars, folderVars, mmVars, start_time>>

\* commit: create_node on the worker for the next node of the placement; the
\* node starts, connects and publishes its state.
commit_create(i, n, ctx) ==
    /\ ops[i].op = "commit"
    /\ ops[i].pc = "creating"
    /\ nodeCtx[n] = "none"
    /\ nodeCtx' = [nodeCtx EXCEPT ![n] = ctx]
    /\ \E f \in InitialPhases :
          /\ nodeFsm' = [nodeFsm EXCEPT ![n] = f]
          /\ mirror' = [mirror EXCEPT ![n] = NodeSetupReport(f)]
    /\ UNCHANGED <<collecting, running, futures, saves, ops, last, nOps>>
    /\ UNCHANGED <<clientVars, folderVars, mmVars, start_time>>

\* commit_broadcast sending the table as soon as one node is created.
commit_broadcast_early(i) ==
    /\ ops[i].op = "commit"
    /\ ops[i].pc = "creating"
    /\ Hosted # {}
    /\ ops' = [ops EXCEPT ![i] = Broadcast("commit")]
    /\ UNCHANGED <<nodeFsm, nodeCtx, mirror, last>>
    /\ UNCHANGED <<collecting, running, futures, saves, nOps>>
    /\ UNCHANGED <<clientVars, folderVars, mmVars, start_time>>

\* commit: await INITIALIZED for all, build the NodePubTable, broadcast it;
\* a failed step aborts the commit and resets.
commit_broadcast(i) ==
    /\ ops[i].op = "commit"
    /\ ops[i].pc = "creating"
    /\ Hosted = Nodes
    /\ IF \A n \in Nodes : mirror[n] = "INITIALIZED"
       THEN /\ ops' = [ops EXCEPT ![i] = Broadcast("commit")]
            /\ UNCHANGED <<nodeFsm, nodeCtx, mirror, last>>
       ELSE /\ ops' = [ops EXCEPT ![i] = NoOp]
            /\ ResetEffect
            /\ last' = [op |-> "commit", resp |-> "Timeout", lost |-> FALSE]
    /\ UNCHANGED <<collecting, running, futures, saves, nOps>>
    /\ UNCHANGED <<clientVars, folderVars, mmVars, start_time>>

\* commit: await CONNECTED for all; a failed step aborts the commit and
\* resets.
commit_resume(i) ==
    /\ ops[i].op = "commit"
    /\ BroadcastDone(i)
    /\ IF ops[i].ok /\ \A n \in Nodes : mirror[n] = "CONNECTED"
       THEN /\ last' = [op |-> "commit", resp |-> "OK", lost |-> FALSE]
            /\ UNCHANGED <<nodeFsm, nodeCtx, mirror>>
       ELSE /\ ResetEffect
            /\ last' = [op |-> "commit",
                        resp |-> IF ops[i].ok THEN "Timeout"
                                 ELSE "PartialFailure",
                        lost |-> ops[i].lost # {}]
    /\ ops' = [ops EXCEPT ![i] = NoOp]
    /\ UNCHANGED <<collecting, running, futures, saves, nOps>>
    /\ UNCHANGED <<clientVars, folderVars, mmVars, start_time>>

\* reset(): destroys every node, clears the placement and the NodePubTable.
reset(i) ==
    /\ CanStart(i)
    /\ Quiet
    /\ ResetEffect
    /\ last' = [op |-> "reset", resp |-> "OK", lost |-> FALSE]
    /\ nOps' = nOps + 1
    /\ UNCHANGED <<collecting, running, futures, saves, ops>>
    /\ UNCHANGED <<clientVars, folderVars, mmVars, start_time>>

----------------------------------------------------------------------------
(* The worker's NodeHandlerService (specification, section 4.4) *)

\* async_create_node(NodeConfig(node, context)): the node is instantiated in
\* its context; the call waits for the state the node publishes in setup.
async_create_node(i, n, ctx) ==
    /\ CanStart(i)
    /\ Quiet
    /\ nodeCtx[n] = "none"
    /\ nodeCtx' = [nodeCtx EXCEPT ![n] = ctx]
    /\ \E f \in InitialPhases :
          /\ nodeFsm' = [nodeFsm EXCEPT ![n] = f]
          /\ mirror' = [mirror EXCEPT ![n] = NodeSetupReport(f)]
    /\ last' = [op |-> "async_create_node",
                resp |-> IF mirror'[n] = "INITIALIZED" THEN "OK"
                         ELSE "Timeout",
                lost |-> FALSE]
    /\ nOps' = nOps + 1
    /\ UNCHANGED <<collecting, running, futures, saves, ops>>
    /\ UNCHANGED <<clientVars, folderVars, mmVars, start_time>>

\* async_destroy_node(node_id): SHUTDOWN is sent to the node, the context is
\* joined with a grace deadline, then terminated.
async_destroy_node(i, n) ==
    /\ CanStart(i)
    /\ Quiet
    /\ nodeCtx[n] # "none"
    /\ nodeCtx' = [nodeCtx EXCEPT ![n] = "none"]
    /\ nodeFsm' = [nodeFsm EXCEPT ![n] = "REGISTERED"]
    /\ mirror' = [mirror EXCEPT ![n] = "REGISTERED"]
    /\ last' = [op |-> "async_destroy_node", resp |-> "OK", lost |-> FALSE]
    /\ nOps' = nOps + 1
    /\ UNCHANGED <<collecting, running, futures, saves, ops>>
    /\ UNCHANGED <<clientVars, folderVars, mmVars, start_time>>

\* async_start_nodes, async_stop_nodes: fan-out to the hosted nodes.
NodeHandlerCommand(i, cmd) ==
    /\ CanStart(i)
    /\ Quiet
    /\ ops' = [ops EXCEPT ![i] = Broadcast(cmd)]
    /\ nOps' = nOps + 1
    /\ UNCHANGED <<nodeFsm, nodeCtx, mirror, collecting, running, futures,
                   saves, last>>
    /\ UNCHANGED <<clientVars, folderVars, mmVars, start_time>>

\* A broadcast of the WorkerHandler or of the NodeHandlerService returns.
BroadcastReturn(i) ==
    /\ ops[i].op \in HandlerCmds \cup WorkerCmds
    /\ BroadcastDone(i)
    /\ last' = [op |-> ops[i].op,
                resp |-> IF ops[i].ok THEN "OK" ELSE "PartialFailure",
                lost |-> ops[i].lost # {}]
    /\ ops' = [ops EXCEPT ![i] = NoOp]
    /\ UNCHANGED <<nodeFsm, nodeCtx, mirror, collecting, running, futures,
                   saves, nOps>>
    /\ UNCHANGED <<clientVars, folderVars, mmVars, start_time>>

----------------------------------------------------------------------------
ManagerNext ==
    \/ \E i \in Slots : post_start(i)
    \/ \E i \in Slots : post_start_resume(i)
    \/ \E i \in Slots : post_stop(i)
    \/ \E i \in Slots : post_stop_resume(i)
    \/ \E i \in Slots : post_collect(i)
    \/ \E i \in Slots : post_collect_resume(i)
    \/ \E i \in Slots, cmd \in HandlerCmds : WorkerHandlerCommand(i, cmd)
    \/ \E i \in Slots : commit(i)
    \/ \E i \in Slots, n \in Nodes, ctx \in Contexts : commit_create(i, n, ctx)
    \/ \E i \in Slots : commit_broadcast(i)
    \/ \E i \in Slots : commit_resume(i)
    \/ \E i \in Slots : reset(i)
    \/ \E i \in Slots, n \in Nodes, ctx \in Contexts :
          async_create_node(i, n, ctx)
    \/ \E i \in Slots, n \in Nodes : async_destroy_node(i, n)
    \/ \E i \in Slots, cmd \in WorkerCmds : NodeHandlerCommand(i, cmd)
    \/ \E i \in Slots : BroadcastReturn(i)
    \/ \E i \in Slots, n \in Nodes : Deliver(i, n)
    \/ \E i \in Slots, n \in Nodes : DeliverLost(i, n)

ManagerSpec == Init /\ [][ManagerNext]_vars

----------------------------------------------------------------------------
(* File transfer: Client.send_folder and Client.send_file *)

\* The senders of the tests and what their dir argument may be on disk.
SenderIds == {"test", "Gen1"}
DirKinds  == {"dir", "file", "missing"}

\* delay = 1, never changed by the loop.
delay == 1

\* process.exitcode of one archive attempt (0, or not 0) for the given dir:
\* make_archive cannot succeed on something that is not a directory.
ExitCodes(d) == IF d = "dir" THEN {0, 1} ELSE {1}

\* What session.post can do: a response with a success status, a response
\* with an error status, or an exception of the http client.
PostOutcomes == {"200", "4xx", "ClientError"}

\* The receiver's /file/post: an upload it accepts is recorded under its
\* sender id; one it rejects is not.
Receive(outcome, sender) ==
    IF outcome = "200" THEN file_transfer_records \cup {sender}
    ELSE file_transfer_records

\* The coroutine ends: return value or exception.
FolderReturn(value) ==
    /\ folderPc' = "idle"
    /\ folderResult' = value

\* Client.async_send_folder up to the retry loop: a dir that does not exist
\* returns False at once.
async_send_folder(sender, d, zt) ==
    /\ folderPc = "idle"
    /\ nSends < MaxSends
    /\ nSends' = nSends + 1
    /\ folderCall' = "send_folder"
    /\ sender_id' = sender
    /\ posted' = FALSE
    /\ miss_counter' = 0
    /\ dir' = d
    /\ IF d = "missing"
       THEN /\ FolderReturn("False")
            /\ UNCHANGED zip_timeout
       ELSE /\ folderPc' = "archive"
            /\ folderResult' = "none"
            /\ zip_timeout' = zt
    /\ UNCHANGED file_transfer_records
    /\ UNCHANGED <<clientVars, mgrVars, mmVars>>

\* One pass through the try: process.start(); process.join(); assert
\* process.exitcode == 0; break. A failed attempt goes to the except clause
\* and sleeps.
archive_attempt ==
    /\ folderPc = "archive"
    /\ \E exitcode \in ExitCodes(dir) :
          folderPc' = IF exitcode = 0 THEN "post" ELSE "sleep"
    /\ UNCHANGED <<folderCall, sender_id, dir, miss_counter, zip_timeout,
                   posted, folderResult, file_transfer_records, nSends>>
    /\ UNCHANGED <<clientVars, mgrVars, mmVars>>

\* archive_retry going on to the POST when the budget is used up.
archive_retry_posts_anyway ==
    /\ folderPc = "sleep"
    /\ miss_counter' = miss_counter + 1
    /\ IF zip_timeout < delay * miss_counter'
       THEN /\ folderPc' = "post"
            /\ UNCHANGED folderResult
       ELSE /\ folderPc' = "archive"
            /\ UNCHANGED folderResult
    /\ UNCHANGED <<folderCall, sender_id, dir, zip_timeout, posted,
                   file_transfer_records, nSends>>
    /\ UNCHANGED <<clientVars, mgrVars, mmVars>>

\* archive_retry with the miss counter left as it is.
archive_retry_no_count ==
    /\ folderPc = "sleep"
    /\ miss_counter' = miss_counter
    /\ IF zip_timeout < delay * miss_counter'
       THEN FolderReturn("False")
       ELSE /\ folderPc' = "archive"
            /\ UNCHANGED folderResult
    /\ UNCHANGED <<folderCall, sender_id, dir, zip_timeout, posted,
                   file_transfer_records, nSends>>
    /\ UNCHANGED <<clientVars, mgrVars, mmVars>>

\* The except clause after the sleep: miss_counter += 1; if zip_timeout <
\* delay * miss_counter: return False; otherwise the loop goes round.
archive_retry ==
    /\ folderPc = "sleep"
    /\ miss_counter' = miss_counter + 1
    /\ IF zip_timeout < delay * miss_counter'
       THEN FolderReturn("False")
       ELSE /\ folderPc' = "archive"
            /\ UNCHANGED folderResult
    /\ UNCHANGED <<folderCall, sender_id, dir, zip_timeout, posted,
                   file_transfer_records, nSends>>
    /\ UNCHANGED <<clientVars, mgrVars, mmVars>>

\* Client.send_file: async_send_file is called directly.
send_file(sender) ==
    /\ folderPc = "idle"
    /\ nSends < MaxSends
    /\ nSends' = nSends + 1
    /\ folderCall' = "send_file"
    /\ sender_id' = sender
    /\ posted' = FALSE
    /\ folderPc' = "post"
    /\ folderResult' = "none"
    /\ UNCHANGED <<dir, miss_counter, zip_timeout, file_transfer_records>>
    /\ UNCHANGED <<clientVars, mgrVars, mmVars>>

\* Client.async_send_file: await session.post(url, data=data); return True.
\* The response is not looked at; an exception of the http client leaves the
\* coroutine.
async_send_file ==
    /\ folderPc = "post"
    /\ \E outcome \in PostOutcomes :
          /\ file_transfer_records' = Receive(outcome, sender_id)
          /\ posted' = (outcome # "ClientError")
          /\ FolderReturn(IF outcome = "ClientError" THEN "raised"
                          ELSE "True")
    /\ UNCHANGED <<folderCall, sender_id, dir, miss_counter, zip_timeout,
                   nSends>>
    /\ UNCHANGED <<clientVars, mgrVars, mmVars>>

FolderNext ==
    \/ \E sender \in SenderIds, d \in DirKinds, zt \in 0..MaxZipTime :
          async_send_folder(sender, d, zt)
    \/ archive_attempt
    \/ archive_retry
    \/ \E sender \in SenderIds : send_file(sender)
    \/ async_send_file

FolderSpec == Init /\ [][FolderNext]_vars

\* The event loop resumes the coroutine after each await: the join of the
\* archive process, the sleep, the post.
FolderFairSpec ==
    /\ FolderSpec
    /\ WF_vars(archive_attempt)
    /\ WF_vars(archive_retry)
    /\ WF_vars(async_send_file)

----------------------------------------------------------------------------
(* mm.Session and the forward wrapper of mm.Process *)

\* max(timestamps)
MaxOf(S) == CHOOSE x \in S : \A y \in S : y <= x

\* The wrapper the metaclass puts around a process's forward: the latest
\* timestamp of the inputs is taken first (max of no timestamps raises),
\* then the user's function is applied; a result that is not None comes
\* back as a DataSample named after the process, None comes back as None.
forward(p, args, returns_none) ==
    IF Len(args) = 0 THEN ValueError
    ELSE IF returns_none THEN None
    ELSE DataSample(p.name,
                    MaxOf({args[i].time : i \in 1..Len(args)}),
                    [i \in 1..Len(args) |-> args[i].time])

isinstance_DataSample(x) == x \notin {None, ValueError}

\* Session.update: self.records[sample.dtype] = sample
update(sample) == records' = [records EXCEPT ![sample.dtype] = sample]

\* A data stream's sample is stored.
Update ==
    /\ nSessionOps < MaxSessionOps
    /\ \E dtype \in DataTypes, time \in 1..MaxTime :
          update(DataSample(dtype, time, <<>>))
    /\ process' = "none"
    /\ called' = FALSE
    /\ inputs' = <<>>
    /\ output' = None
    /\ nSessionOps' = nSessionOps + 1
    /\ UNCHANGED <<clientVars, mgrVars, folderVars>>

\* Session.apply skipping the process only when every input is missing.
apply_skips_when_all_missing(p) ==
    /\ nSessionOps < MaxSessionOps
    /\ process' = p.name
    /\ nSessionOps' = nSessionOps + 1
    /\ LET inputs_missing ==
               [i \in 1..Len(p.inputs) |-> records[p.inputs[i]] = NoSample]
       IN  IF /\ Len(p.inputs) > 0
              /\ \A i \in 1..Len(p.inputs) : inputs_missing[i]
           THEN /\ called' = FALSE
                /\ inputs' = <<>>
                /\ output' = None
                /\ UNCHANGED records
           ELSE /\ called' = TRUE
                /\ inputs' = [i \in 1..Len(p.inputs) |-> records[p.inputs[i]]]
                /\ \E returns_none \in BOOLEAN :
                      /\ output' = forward(p, inputs', returns_none)
                      /\ IF isinstance_DataSample(output')
                         THEN update(output')
                         ELSE UNCHANGED records
    /\ UNCHANGED <<clientVars, mgrVars, folderVars>>

\* Session.apply(process)
apply(p) ==
    /\ nSessionOps < MaxSessionOps
    /\ process' = p.name
    /\ nSessionOps' = nSessionOps + 1
    /\ LET inputs_missing ==
               [i \in 1..Len(p.inputs) |-> records[p.inputs[i]] = NoSample]
       IN  IF \E i \in 1..Len(p.inputs) : inputs_missing[i]
           THEN /\ called' = FALSE
                /\ inputs' = <<>>
                /\ output' = None
                /\ UNCHANGED records
           ELSE /\ called' = TRUE
                /\ inputs' = [i \in 1..Len(p.inputs) |-> records[p.inputs[i]]]
                /\ \E returns_none \in BOOLEAN :
                      /\ output' = forward(p, inputs', returns_none)
                      /\ IF isinstance_DataSample(output')
                         THEN update(output')
                         ELSE UNCHANGED records
    /\ UNCHANGED <<clientVars, mgrVars, folderVars>>

SessionNext ==
    \/ Update
    \/ \E p \in Processes : apply(p)

SessionSpec == Init /\ [][SessionNext]_vars

----------------------------------------------------------------------------
(* C1 *)

\* C1: a lifecycle command received while the node's phase is not one of
\* the command's legal preconditions leaves fsm as it was before the handler.
C1_IllegalCommandRefused ==
    ( /\ HandlerReturned
      /\ cur.signal \in LifecycleSignals
      /\ phaseAtRecv \notin Precondition(cur.signal) )
    => fsm = phaseAtRecv

----------------------------------------------------------------------------
(* C2 *)

----------------------------------------------------------------------------
(* C3 *)

\* C3: the handler of a lifecycle command leaves fsm at exactly the
\* command's post-state, and fsm changes only in the step that follows the
\* completed dispatch of the command's event on the event bus.
C3_PostStateAfterEvent ==
    [][ /\ ( fsm' # fsm =>
               /\ readerPc = "awaiting"
               /\ cur.signal \in LifecycleSignals
               /\ busEvent = CommandEvent(cur.signal) )
        /\ ( (readerPc = "awaiting" /\ readerPc' = "handled"
                /\ cur.signal \in LifecycleSignals) =>
               fsm' = PostState(cur.signal) ) ]_vars

\* RECORD_NODES accepted at PREVIEWING: the node is RECORDING.
C3_Witness ==
    /\ HandlerReturned
    /\ cur.signal = "RECORD_NODES"
    /\ phaseAtRecv = "PREVIEWING"
    /\ fsm = "RECORDING"

----------------------------------------------------------------------------
(* C4 *)

\* C4: a lifecycle command handled while the node is already in the
\* command's post-state returns normally and leaves fsm at that post-state.
C4_DuplicateIdempotent ==
    [][ ( /\ readerPc = "awaiting"
          /\ cur.signal \in LifecycleSignals
          /\ fsm = PostState(cur.signal)
          /\ readerPc' # readerPc ) =>
        ( readerPc' = "handled" /\ fsm' = fsm ) ]_vars

\* START_NODES handled while PREVIEWING.
C4_Witness ==
    /\ HandlerReturned
    /\ cur.signal = "START_NODES"
    /\ phaseAtRecv = "PREVIEWING"
    /\ fsm = "PREVIEWING"

----------------------------------------------------------------------------
(* C5 *)

\* C5: no step of the handling of REQUEST_GATHER, REQUEST_STEP or
\* REQUEST_METHOD, from taking the frame to returning to the read loop,
\* changes fsm.
C5_RequestsKeepFsm ==
    [][ (cur.signal \in RequestSignals \/ cur'.signal \in RequestSignals)
          => fsm' = fsm ]_vars

\* REQUEST_GATHER handled while RECORDING.
C5_Witness ==
    /\ HandlerReturned
    /\ cur.signal = "REQUEST_GATHER"
    /\ phaseAtRecv = "RECORDING"
    /\ fsm = "RECORDING"

----------------------------------------------------------------------------
(* C6 *)

\* C6: once the reader is back at its loop and no send is in progress, the
\* phase a command gave the node has been sent to the worker in a
\* NODE_STATUS frame.
C6_TransitionReported ==
    ( /\ readerPc = "recv"
      /\ sendPc = "idle"
      /\ fsm \in {PostState(c) : c \in LifecycleSignals} )
    => reported = fsm

----------------------------------------------------------------------------
(* C7 *)

\* C7 as stated, for the frames whose handler returned: when the reader
\* leaves a frame, an OK with its uuid has been sent if and only if the
\* frame had ok=true.
C7_OkIffRequested ==
    [][ (readerPc = "handled" /\ readerPc' # "handled") =>
          (cur.ok <=> cur.uuid \in okSent') ]_vars

\* C7, amended: an OK is sent only for the frame whose handler has just
\* returned and only if that frame had ok=true; a frame with ok=true whose
\* handler returned gets its OK unless the write is reset, in which case the
\* reader closes the websocket and ends.
C7_OkOnlyAfterHandler ==
    [][ /\ ( okSent' # okSent =>
               /\ readerPc = "handled"
               /\ cur.ok
               /\ okSent' = okSent \cup {cur.uuid} )
        /\ ( (readerPc = "handled" /\ readerPc' = "recv") =>
               (cur.ok <=> cur.uuid \in okSent') )
        /\ ( (readerPc = "handled" /\ readerPc' = "done") =>
               (cur.ok /\ ws' = "closed" /\ okSent' = okSent) ) ]_vars

\* The first frame was BROADCAST_NODE_SERVER with ok=true: handled, then acked.
C7_Witness ==
    /\ okSent = {1}
    /\ fsm = "CONNECTED"
    /\ readerPc = "recv"

----------------------------------------------------------------------------
(* C8 *)

\* C8: every send of a frame with ok=true ends, with the OK seen in the ack
\* ring or with a Timeout; async_send returns True only when the uuid is in
\* the ring.
C8_OkSendEnds ==
    /\ (sendPc # "idle" /\ sendMsg.ok) ~> (sendPc = "idle" \/ ~sendMsg.ok)
    /\ [][ (sendPc = "wait_send" /\ sendPc' = "idle") =>
             \/ (result' = "True" /\ InRing(sendMsg.uuid))
             \/ (result' = "Timeout" /\ ~InRing(sendMsg.uuid)) ]_vars

\* The one async_send of the application, ok=true, was written and never
\* acknowledged: it has ended in Timeout.
C8_Witness ==
    /\ sendPc = "idle"
    /\ result = "Timeout"
    /\ nCalls = 1
    /\ \E i \in 1..Len(srvSeen) : srvSeen[i] # DefaultMsgUuid

----------------------------------------------------------------------------
(* C9 *)

\* C9: the uuids of the ok=true frames the client has sent are pairwise
\* different.
C9_FreshUuids ==
    \A i, j \in 1..Len(srvSeen) : i # j => srvSeen[i] # srvSeen[j]

----------------------------------------------------------------------------
(* C10 *)

\* C10: a frame whose signal has no handler is dropped and the reader keeps
\* running on the open connection.
C10_UnknownSignalDropped ==
    [][ ( /\ readerPc = "recv"
          /\ cur'.signal \notin DOMAIN ws_handlers
          /\ cur' # NoFrame )
        => ( readerPc' = "recv" /\ ws' = "open" ) ]_vars

----------------------------------------------------------------------------
(* C11 *)

\* C11: handling an OK frame whose uuid is already in the ack ring leaves
\* the ring's contents as they were.
C11_DuplicateOkNoOp ==
    [][ ( /\ readerPc = "recv"
          /\ readerPc' = "handled"
          /\ cur'.signal = "OK"
          /\ InRing(cur'.data) )
        => uuid_records' = uuid_records ]_vars

----------------------------------------------------------------------------
(* C12 *)

\* C12: async_send does not return True for a frame that was never written:
\* not in the step in which _send_msg finds the websocket closed or its
\* write reset, and not later from the ack wait of a frame with ok=true that
\* never reached the peer.
C12_LostSendFails ==
    [][ /\ ( ( /\ sendPc = "write"
               /\ sendCall = "send"
               /\ (ws = "closed" \/ ws' = "closed") )
             => result' # "True" )
        /\ ( ( /\ sendPc = "wait_send"
               /\ sendPc' = "idle"
               /\ result' = "True" )
             => \E i \in 1..Len(srvSeen) : srvSeen[i] = sendMsg.uuid ) ]_vars

----------------------------------------------------------------------------
(* Steps of ManagerSpec the claims speak about *)

\* Operation op is requested in this step: it takes a slot or is answered at
\* once.
Requested(op) ==
    /\ nOps' = nOps + 1
    /\ \/ (ops' = ops /\ last'.op = op)
       \/ \E i \in Slots : ops[i].pc = "idle" /\ ops'[i].op = op

\* The operation in slot i returns in this step.
Returns(i) == ops[i].pc = "bcast" /\ ops'[i].pc = "idle"

\* Node n handles the frame of the broadcast in slot i in this step.
Handles(i, n) ==
    /\ ops[i].pc = "bcast"
    /\ n \in ops[i].pending
    /\ n \notin ops'[i].pending
    /\ ops'[i].lost = ops[i].lost

----------------------------------------------------------------------------
(* C13 *)

\* C13: a POST /collect that arrives while another POST /collect is awaiting
\* its /nodes/save broadcast is answered 200 at once, issues no broadcast
\* and schedules no async_collect; at no time are two collect requests
\* awaiting a broadcast, and at most one /nodes/save broadcast and one
\* async_collect run come out of the requests.
C13_OverlappingCollect ==
    /\ [](Cardinality({i \in Slots : ops[i].op = "post_collect"}) <= 1)
    /\ [](saves <= 1 /\ futures <= 1)
    /\ [][ ( /\ Requested("post_collect")
             /\ \E j \in Slots : ops[j].op = "post_collect" )
           => ( /\ ops' = ops
                /\ last' = [op |-> "post_collect", resp |-> "200",
                            lost |-> FALSE]
                /\ saves' = saves
                /\ futures' = futures ) ]_vars

\* A second POST /collect was answered 200 while the first one is still
\* awaiting its broadcast.
C13_Witness ==
    /\ \E i \in Slots : ops[i].op = "post_collect" /\ ops[i].pc = "bcast"
    /\ last = [op |-> "post_collect", resp |-> "200", lost |-> FALSE]
    /\ saves = 1
    /\ futures = 0

----------------------------------------------------------------------------
(* C14 *)

\* C14: POST /start and POST /stop answer 200 exactly when their broadcast
\* succeeded and an error otherwise; running becomes true (start) or false
\* (stop) on success, keeps its value on failure, and changes in no other
\* step.
C14_RunningFollowsBroadcast ==
    [][ /\ \A i \in Slots :
             ( Returns(i) /\ ops[i].op \in {"post_start", "post_stop"} ) =>
               /\ last'.op = ops[i].op
               /\ last'.resp = IF ops[i].ok THEN "200" ELSE "error"
               /\ running' = IF ops[i].ok THEN (ops[i].op = "post_start")
                             ELSE running
        /\ \A op \in {"post_start", "post_stop"} :
             ( Requested(op) /\ ops' = ops ) => last'.resp # "200"
        /\ ( running' # running =>
               \E i \in Slots :
                  /\ Returns(i)
                  /\ ops[i].op \in {"post_start", "post_stop"}
                  /\ ops[i].ok ) ]_vars

\* POST /start succeeded, then a POST /stop failed: still running.
C14_Witness ==
    /\ last.op = "post_stop"
    /\ last.resp = "error"
    /\ running = TRUE

----------------------------------------------------------------------------
(* C15 *)

----------------------------------------------------------------------------
(* C16 *)

\* C16: POST /start, /stop and /collect send their broadcast to the hosted
\* nodes only when the aggregate graph state is a legal precondition of the
\* command.
C16_ApiGated ==
    [][ \A i \in Slots :
          ( /\ ops[i].pc = "idle"
            /\ ops'[i].pc = "bcast"
            /\ ops'[i].op \in ApiRoutes
            /\ ops'[i].pending # {} )
          => Aggregate \in Precondition(SignalOf(ops'[i].op)) ]_vars

----------------------------------------------------------------------------
(* C17 *)

\* C17: with both nodes placed on the one worker, a commit that loses no
\* frame succeeds and leaves both nodes CONNECTED; a start_workers, stop or
\* collect whose broadcast loses no frame succeeds and leaves both nodes in
\* the command's post-state (SAVED after collect); reset succeeds.
C17_LifecycleSucceeds ==
    /\ (last.op = "commit" /\ ~last.lost) =>
          ( /\ last.resp = "OK"
            /\ \A n \in Nodes : nodeFsm[n] = "CONNECTED" )
    /\ ( /\ last.op \in {"start_workers", "stop", "collect"}
         /\ last.resp # "InvalidPrecondition"
         /\ ~last.lost
         /\ Quiet ) =>
          ( /\ last.resp = "OK"
            /\ \A n \in Hosted : nodeFsm[n] = PostState(SignalOf(last.op)) )
    /\ last.op = "reset" => last.resp = "OK"

----------------------------------------------------------------------------
(* C18 *)

\* C18: a node handles BROADCAST_NODE_SERVER, and a node becomes CONNECTED,
\* only when every node of the graph is hosted, is INITIALIZED or later and
\* has reported its state.
C18_TableAfterAllInitialized ==
    [][ /\ \A i \in Slots, n \in Nodes :
             ( Handles(i, n) /\ SignalOf(ops[i].op) = "BROADCAST_NODE_SERVER" )
             => \A m \in Nodes :
                   /\ m \in Hosted
                   /\ Rank(nodeFsm[m]) >= Rank("INITIALIZED")
                   /\ mirror[m] # "REGISTERED"
        /\ \A n \in Nodes :
             ( nodeFsm'[n] = "CONNECTED" /\ nodeFsm[n] # "CONNECTED" )
             => \A m \in Nodes : nodeFsm[m] # "REGISTERED" ]_vars

\* The table has reached both nodes of the commit.
C18_Witness ==
    /\ \E i \in Slots : ops[i].op = "commit" /\ BroadcastDone(i)
    /\ \A n \in Nodes : nodeFsm[n] = "CONNECTED"

----------------------------------------------------------------------------
(* C19 *)

----------------------------------------------------------------------------
(* C20 *)

\* C20: async_start_nodes and async_stop_nodes succeed whenever no frame is
\* lost, whatever the phase of the hosted nodes, in particular for a node
\* that was only created; each node that handles START_NODES acknowledges
\* it and is PREVIEWING afterwards.
C20_StartFromCreated ==
    [][ /\ \A i \in Slots :
             ( Returns(i) /\ ops[i].op \in WorkerCmds /\ ops[i].lost = {} )
             => last' = [op |-> ops[i].op, resp |-> "OK", lost |-> FALSE]
        /\ \A i \in Slots, n \in Nodes :
             ( Handles(i, n) /\ ops[i].op = "async_start_nodes" )
             => ( nodeFsm'[n] = "PREVIEWING" /\ ops'[i].ok = ops[i].ok )
      ]_vars

\* One node created and started at once; the start succeeded.
C20_Witness ==
    /\ last = [op |-> "async_start_nodes", resp |-> "OK", lost |-> FALSE]
    /\ nOps = 2
    /\ Hosted = {"Gen1"}
    /\ nodeFsm["Gen1"] = "PREVIEWING"
    /\ mirror["Gen1"] = "INITIALIZED"

----------------------------------------------------------------------------
(* C21 *)

\* C21: the first frame the sender writes on a new connection is
\* CLIENT_REGISTER with the client's id and ok=true; a connect that returns
\* normally has seen that frame's OK, and the peer has received the frame;
\* a NODE_STATUS reaches the worker only from the send that setup makes
\* after its connect has returned.
C21_RegisterFirst ==
    [][ /\ ( (sendPc' = "write" /\ sendCall' \in {"setup", "connect"}) =>
               sendMsg' = create_payload("CLIENT_REGISTER", "client_id",
                                         sendMsg'.uuid, TRUE) )
        /\ ( ( /\ sendCall \in {"setup", "connect"}
               /\ sendCall' \notin {"setup", "connect"}
               /\ result' # "Timeout" ) =>
               ( /\ InRing(sendMsg.uuid)
                 /\ \E i \in 1..Len(srvSeen') : srvSeen'[i] = sendMsg.uuid ) )
        /\ ( reported' # reported => sendCall = "status" ) ]_vars

----------------------------------------------------------------------------
(* C22 *)

----------------------------------------------------------------------------
(* C23 *)

\* C23: when the handler of a SHUTDOWN frame has returned, the handler that
\* ran is the one WorkerCommsService.setup registered for SHUTDOWN, and the
\* node's phase is SHUTDOWN.
C23_ServiceShutdownInvoked ==
    ( HandlerReturned /\ cur.signal = "SHUTDOWN" ) =>
        ( /\ ws_handlers[cur.signal] = NodeHandlers[cur.signal]
          /\ fsm = "SHUTDOWN" )

----------------------------------------------------------------------------
(* C24 *)

----------------------------------------------------------------------------
(* C25 *)

\* C25: when the handler of a frame raises, the exception is caught at the
\* handler boundary: the reader goes on with its loop and the websocket
\* stays open.
C25_HandlerExceptionCaught ==
    [][ ( /\ readerPc = "recv"
          /\ cur' # cur
          /\ cur'.signal \in DOMAIN ws_handlers
          /\ HandlerRaises(ws_handlers[cur'.signal], cur'.data) )
        => ( readerPc' \in {"recv", "handled"} /\ ws' = "open" ) ]_vars

----------------------------------------------------------------------------
(* C26 *)

\* C26: the archive retry loop of async_send_folder always ends, with an
\* attempt that exits with code 0 or with the return of False; inside the
\* loop the accumulated delay has not exceeded comms.timeout.zip-time, and
\* the loop is left with False exactly when a failure makes it exceed it.
C26_ArchiveLoopTerminates ==
    /\ (folderPc \in {"archive", "sleep"}) ~> (folderPc \in {"post", "idle"})
    /\ []( folderPc \in {"archive", "sleep"} =>
             delay * miss_counter <= zip_timeout )
    /\ [][ /\ ( (folderPc = "sleep" /\ folderPc' = "idle") =>
                  /\ zip_timeout < delay * miss_counter'
                  /\ folderResult' = "False" )
           /\ ( (folderPc = "sleep" /\ folderPc' = "archive") =>
                  /\ miss_counter' = miss_counter + 1
                  /\ delay * miss_counter' <= zip_timeout ) ]_vars

\* Every attempt failed: the loop was left after zip-time + 1 failures.
C26_Witness ==
    /\ folderPc = "idle"
    /\ folderCall = "send_folder"
    /\ folderResult = "False"
    /\ zip_timeout = MaxZipTime
    /\ miss_counter = zip_timeout + 1

----------------------------------------------------------------------------
(* C27 *)

\* C27: when a failed archive attempt uses the retry budget up,
\* async_send_folder returns False without a POST to /file/post; a
\* send_folder reaches the POST only from an archive attempt that exited
\* with code 0, and a call that returned False has POSTed nothing.
C27_NoPostWithoutArchive ==
    /\ []( ( /\ folderPc = "idle"
             /\ folderCall = "send_folder"
             /\ folderResult = "False" ) => ~posted )
    /\ [][ /\ ( ( /\ folderPc = "sleep"
                  /\ zip_timeout < delay * (miss_counter + 1)
                  /\ folderPc' # folderPc ) =>
                  ( /\ folderPc' = "idle"
                    /\ folderResult' = "False"
                    /\ ~posted'
                    /\ file_transfer_records' = file_transfer_records ) )
           /\ ( ( /\ folderCall' = "send_folder"
                  /\ folderPc' = "post"
                  /\ folderPc # "post" ) =>
                  ( folderPc = "archive" /\ 0 \in ExitCodes(dir) ) )
           /\ ( ( posted' # posted
                  \/ file_transfer_records' # file_transfer_records ) =>
                  ( folderPc = "post" \/ (folderPc = "idle" /\ ~posted') ) )
         ]_vars

\* A directory whose archiving never succeeded: False, nothing uploaded.
C27_Witness ==
    /\ folderPc = "idle"
    /\ folderCall = "send_folder"
    /\ dir = "dir"
    /\ folderResult = "False"
    /\ miss_counter > 1
    /\ ~posted
    /\ file_transfer_records = {}

----------------------------------------------------------------------------
(* C28 *)

\* C28: when send_folder or send_file has returned True for sender_id, the
\* receiver's file-transfer table has an entry for that sender_id.
C28_SuccessMeansRecorded ==
    ( folderPc = "idle" /\ folderResult = "True" ) =>
        sender_id \in file_transfer_records

----------------------------------------------------------------------------
(* C29 *)

\* The frame names a method the user code has not registered.
UnknownMethodFrame(msg) ==
    /\ msg.signal = "REQUEST_METHOD"
    /\ msg.data \in MethodNames \ RegisteredMethods

----------------------------------------------------------------------------
(* C30 *)

\* C30: the ack ring never holds more than 100 uuids. It changes only in
\* the step in which the reader dispatches an OK frame to its handler, which
\* puts the frame's uuid behind the entries already there and, when the
\* ring is full, drops the oldest one, and in the clear that starts a
\* connect.
C30_RingBounded ==
    /\ [](Len(uuid_records) <= 100)
    /\ [][ LET okHandled == /\ readerPc = "recv"
                            /\ readerPc' = "handled"
                            /\ cur'.signal = "OK"
               kept == IF Len(uuid_records) < 100 THEN uuid_records
                       ELSE Tail(uuid_records)
           IN  /\ okHandled => uuid_records' = Append(kept, cur'.data)
               /\ ( uuid_records' # uuid_records =>
                      \/ okHandled
                      \/ /\ uuid_records' = <<>>
                         /\ sendPc = "idle"
                         /\ sendPc' = "write"
                         /\ sendMsg'.signal = "CLIENT_REGISTER" ) ]_vars

\* A full ring from which the acks of the register frame and the first of
\* the further OK frames have been evicted: it holds the last 100 uuids
\* received, oldest first.
C30_Witness ==
    /\ Len(uuid_records) = 100
    /\ uuid_records[1] > MaxFrames + 1
    /\ \A i \in 1..99 : uuid_records[i + 1] = uuid_records[i] + 1

----------------------------------------------------------------------------
(* C31 *)

\* C31: a sender that is waiting on uuid u when the OK for u is received
\* never ends that wait by timeout, whatever other OK frames arrive between
\* its checks of the ring.
C31_AckedWaitCompletes ==
    [][ ( /\ sendPc \in {"wait_msg", "wait_send"}
          /\ ackedInWait
          /\ sendPc' \notin {"wait_msg", "wait_send"} )
        => result' # "Timeout" ]_vars

----------------------------------------------------------------------------
(* C32 *)

\* C32: no step clears the manager's collecting flag once a POST /collect
\* has set it, whether the /nodes/save broadcast succeeds or fails: the
\* request's return leaves it set, every later POST /collect is answered
\* 200 without a broadcast, and over any sequence of requests there is at
\* most one /nodes/save broadcast and at most one scheduled async_collect.
C32_CollectingNeverCleared ==
    /\ [][collecting => collecting']_vars
    /\ [](saves = (IF collecting THEN 1 ELSE 0) /\ futures <= saves)
    /\ [][ \A i \in Slots :
             (ops[i].op = "post_collect" /\ Returns(i)) => collecting' ]_vars
    /\ [][ (collecting /\ Requested("post_collect"))
           => ( /\ ops' = ops
                /\ saves' = saves
                /\ futures' = futures
                /\ last'.resp = "200" ) ]_vars

\* The /nodes/save broadcast failed and its request was answered with an
\* error; a POST /collect made after that was answered 200 with no second
\* broadcast and no async_collect.
C32_Witness ==
    /\ collecting
    /\ Quiet
    /\ saves = 1
    /\ futures = 0
    /\ last = [op |-> "post_collect", resp |-> "200", lost |-> FALSE]

----------------------------------------------------------------------------
(* C33 *)

\* The registration wait of a connect ends in this step, and not by timeout.
RegistrationCompletes ==
    /\ sendPc = "wait_msg"
    /\ sendMsg.signal = "CLIENT_REGISTER"
    /\ sendPc' # "wait_msg"
    /\ result' # "Timeout"

\* C33: the step that starts a connect empties the ack ring, leaves no
\* frame of an earlier connection to be read and has not yet sent
\* CLIENT_REGISTER; a uuid enters the ring only when the reader of the open
\* connection takes an OK frame off the socket; and the registration wait
\* completes only with the register's uuid in the ring. So the OK that
\* completes it was received after the connect started.
C33_ConnectClearsRing ==
    /\ [][ ( sendPc = "idle" /\ sendMsg'.signal = "CLIENT_REGISTER" )
           => ( /\ uuid_records' = <<>>
                /\ inbox' = <<>>
                /\ sendPc' = "write"
                /\ srvSeen' = srvSeen ) ]_vars
    /\ [][ ( uuid_records' # <<>> /\ uuid_records' # uuid_records )
           => ( /\ ws = "open"
                /\ readerPc = "recv"
                /\ inbox # <<>>
                /\ Head(inbox).signal = "OK"
                /\ uuid_records'[Len(uuid_records')] = Head(inbox).data
                /\ sendPc' = sendPc ) ]_vars
    /\ [][ RegistrationCompletes => InRing(sendMsg.uuid) ]_vars

\* A second connect has just emptied the ring, its CLIENT_REGISTER not yet
\* sent; the OK for the first connection's register frame, which has the
\* same uuid, was recorded while that connection waited for it.
C33_Witness ==
    /\ sendCall = "connect"
    /\ sendPc = "write"
    /\ sendMsg.uuid = DefaultMsgUuid
    /\ ackedInWait
    /\ uuid_records = <<>>

----------------------------------------------------------------------------
(* C34 *)

\* C34: while a handler called by the reader is running, the reader takes
\* no further frame off the socket and the ack ring does not change; and an
\* async_send with ok=true awaited inside a handler never returns True: it
\* ends only by the timeout of its wait.
C34_HandlerBlocksReader ==
    /\ [][ readerPc = "awaiting"
           => ( /\ cur' = cur
                /\ uuid_records' = uuid_records
                /\ \/ inbox' = inbox
                   \/ \E f \in {inbox'[Len(inbox')] : i \in 1..Len(inbox')} :
                         inbox' = Append(inbox, f) ) ]_vars
    /\ [](sendCall = "handler_send" =>
             readerPc = "awaiting" /\ ~InRing(sendMsg.uuid))
    /\ [][ ( /\ sendCall = "handler_send"
             /\ sendMsg.ok
             /\ sendCall' # "handler_send" )
           => result' = "Timeout" ]_vars

\* The peer's OK for a frame sent with ok=true from inside provide_gather
\* lies unread on the socket: the sender waits for it while the reader is
\* still in the handler.
C34_Witness ==
    /\ readerPc = "awaiting"
    /\ sendCall = "handler_send"
    /\ sendPc \in {"wait_msg", "wait_send"}
    /\ inbox # <<>>
    /\ inbox[1].signal = "OK"
    /\ inbox[1].data = sendMsg.uuid

----------------------------------------------------------------------------
(* C35 *)

\* This step is a Session.apply.
Applies == nSessionOps' = nSessionOps + 1 /\ process' # "none"

\* The process applied in this step, and whether one of its inputs has no
\* entry in records.
AppliedProcess == CHOOSE p \in Processes : p.name = process'

InputMissing ==
    \E i \in 1..Len(AppliedProcess.inputs) :
        records[AppliedProcess.inputs[i]] = NoSample

LatestInputs ==
    [i \in 1..Len(AppliedProcess.inputs) |-> records[AppliedProcess.inputs[i]]]

\* With an input missing, apply returns None, does not call forward and
\* leaves records as it was.
SkipsOnMissing ==
    InputMissing => (output' = None /\ ~called' /\ records' = records)

\* C35 as stated: apply returns None, does not call forward and leaves
\* records unchanged when an input of the process has no entry in records;
\* otherwise it calls forward with the latest sample of each input, in the
\* order of process.inputs, and stores the resulting sample under the
\* process's name, replacing any earlier one.
C35_ApplyStoresOutput ==
    [][ Applies =>
          /\ SkipsOnMissing
          /\ ~InputMissing =>
                /\ called'
                /\ inputs' = LatestInputs
                /\ output'.dtype = process'
                /\ records' = [records EXCEPT ![process'] = output'] ]_vars

\* C35 amended: as stated when an input is missing. Otherwise apply calls
\* forward with the latest sample of each input in the order of
\* process.inputs; when forward returns a sample, that sample carries the
\* process's name and the latest timestamp of the inputs, replaces the
\* entry under the process's name and is returned; when forward returns
\* None, apply returns None and records is unchanged; for a process without
\* inputs forward raises and records is unchanged.
C35_ApplyStoresSample ==
    [][ Applies =>
          /\ SkipsOnMissing
          /\ ~InputMissing =>
                /\ called'
                /\ inputs' = LatestInputs
                /\ IF Len(LatestInputs) = 0
                   THEN output' = ValueError /\ records' = records
                   ELSE \/ output' = None /\ records' = records
                        \/ /\ output'.dtype = process'
                           /\ \E i \in 1..Len(LatestInputs) :
                                 output'.time = LatestInputs[i].time
                           /\ \A i \in 1..Len(LatestInputs) :
                                 output'.time >= LatestInputs[i].time
                           /\ records' = [records EXCEPT
                                              ![process'] = output'] ]_vars

\* draw_video has just been applied again: its new sample, computed from
\* the csv and video samples in that order, has replaced the one that
\* show_video's sample was computed from.
C35_Witness ==
    /\ process = "draw_video"
    /\ called
    /\ output = records["draw_video"]
    /\ inputs = <<records["csv"], records["video"]>>
    /\ records["csv"].time # records["video"].time
    /\ records["show_video"] # NoSample
    /\ records["show_video"].data # <<output.time>>

====
